---- MODULE Spec2Model ----
(***************************************************************************)
(* Model of tensorpack/models/conv2d.py (Conv2D, Conv2DTranspose,          *)
(* ResizeImages, GroupedConv2D) and of the training script                 *)
(* examples/AnytimeNetwork/imagenet-ann.py.                                *)
(*                                                                         *)
(* A tensor is a record [shape, data]: shape is the sequence of its        *)
(* dimensions and data its elements in row-major order.  An element is a   *)
(* set of symbolic terms, so that a sum is the union of its operands and   *)
(* the terms an output element is made of can be read off the result.      *)
(***************************************************************************)
EXTENDS Integers, Sequences, FiniteSets, TLC

VARIABLES pc, call, graph, ret, script

vars == <<pc, call, graph, ret, script>>

(* ---------------------------- bounds ----------------------------------- *)
\* the batch size, height and width of the input tensors
Batch == 2
Height == 2
Width == 1
\* input channels, groups, output channels per group, filters
MaxChannel == 4
MaxGroups == 2
MaxPathChOut == 2
MaxFilters == 4
\* the stride that is not 1, the largest target size of a resize
Stride == 2
MaxSize == 2
MaxGpu == 2

(* Python's None, as the value of an unknown static dimension. *)
None == 0 - 2

(* ----------------------- sequences and indices ------------------------- *)
RECURSIVE Prod(_)
Prod(s) == IF s = <<>> THEN 1 ELSE Head(s) * Prod(Tail(s))

RECURSIVE SumSeq(_)
SumSeq(s) == IF s = <<>> THEN 0 ELSE Head(s) + SumSeq(Tail(s))

Size(shape) == Prod(shape)

\* weight of axis k (1-based) in the row-major flat index
Weight(shape, k) == Prod(SubSeq(shape, k + 1, Len(shape)))

\* row-major flat index (0-based) of a multi-index (0-based components)
Ravel(idx, shape) ==
    SumSeq([k \in 1..Len(shape) |-> idx[k] * Weight(shape, k)])

\* multi-index of a flat index
Unravel(i, shape) ==
    [k \in 1..Len(shape) |-> (i \div Weight(shape, k)) % shape[k]]

\* s without the positions (0-based) in axes
DropAxes(s, axes) ==
    LET F[k \in 0..Len(s)] ==
            IF k = 0 THEN <<>>
            ELSE IF (k - 1) \in axes THEN F[k - 1]
            ELSE Append(F[k - 1], s[k])
    IN  F[Len(s)]

CeilDiv(a, b) == (a + b - 1) \div b

\* Python indexing of a list: a negative index counts from the end
PyIndex(s, i) == s[(IF i < 0 THEN i + Len(s) ELSE i) + 1]

(* A Python float that is a quotient of integers is kept exactly, as the    *)
(* reduced fraction <<numerator, denominator>>.                            *)
RECURSIVE GCD(_, _)
GCD(a, b) == IF b = 0 THEN a ELSE GCD(b, a % b)

Rat(n, d) == LET g == GCD(n, d) IN <<n \div g, d \div g>>

RatMul(x, y) == Rat(x[1] * y[1], x[2] * y[2])

RatDiv(x, y) == Rat(x[1] * y[2], x[2] * y[1])

\* a negative Python axis counts from the end
NormAxis(axis, rank) == IF axis < 0 THEN axis + rank ELSE axis

(* --------------------- framework tensor primitives --------------------- *)
\* the tensor of a shape and of its row-major sequence of elements
Tensor(shape, data) == [shape |-> shape, data |-> data]

At(t, idx) == t.data[Ravel(idx, t.shape) + 1]

\* tf.reshape: the row-major data is kept; one dimension may be -1
ResolveShape(size, shp) ==
    LET known == Prod([k \in 1..Len(shp) |-> IF shp[k] = -1 THEN 1 ELSE shp[k]])
    IN  [k \in 1..Len(shp) |-> IF shp[k] = -1 THEN size \div known ELSE shp[k]]

tf_reshape(t, shp) ==
    [shape |-> ResolveShape(Size(t.shape), shp), data |-> t.data]

\* tf.reshape raises unless the requested shape holds exactly the elements of t
reshape_ok(t, shp) ==
    LET known == Prod([k \in 1..Len(shp) |-> IF shp[k] = -1 THEN 1 ELSE shp[k]])
    IN  IF \E k \in 1..Len(shp) : shp[k] = -1
        THEN known > 0 /\ Size(t.shape) % known = 0
        ELSE known = Size(t.shape)

\* tf.reduce_sum over a set of axes (0-based)
tf_reduce_sum(t, axes) ==
    LET rank == Len(t.shape)
        oshape == DropAxes(t.shape, axes)
        rshape == DropAxes(t.shape, (0..(rank - 1)) \ axes)
        \* the index of t with kidx on the kept axes and ridx on the summed
        Merge(kidx, ridx) ==
            [k \in 1..rank |->
               LET na == Cardinality({a \in axes : a < k - 1})
               IN  IF (k - 1) \in axes THEN ridx[na + 1] ELSE kidx[k - na]]
    IN  LET shp == oshape
        IN  Tensor(shp,
              [e \in 1..Size(shp) |->
                 LET idx == Unravel(e - 1, shp)
                 IN  UNION { At(t, Merge(idx, Unravel(r, rshape))) :
                     r \in 0..(Size(rshape) - 1) }])

\* tf.split into num equal blocks along axis
tf_split(t, num, axis) ==
    LET ax == NormAxis(axis, Len(t.shape)) + 1
        sz == t.shape[ax] \div num
        bshape == [t.shape EXCEPT ![ax] = sz]
    IN  [b \in 1..num |->
           LET shp == bshape
           IN  Tensor(shp,
                 [e \in 1..Size(shp) |->
                    LET idx == Unravel(e - 1, shp)
                    IN  At(t, [idx EXCEPT ![ax] = @ + (b - 1) * sz])])]

\* tf.concat of a sequence of tensors along axis
tf_concat(ts, axis) ==
    LET ax == NormAxis(axis, Len(ts[1].shape)) + 1
        Off(b) == SumSeq([k \in 1..(b - 1) |-> ts[k].shape[ax]])
        total == Off(Len(ts) + 1)
        oshape == [ts[1].shape EXCEPT ![ax] = total]
        Blk(i) == CHOOSE b \in 1..Len(ts) :
                      Off(b) <= i /\ i < Off(b) + ts[b].shape[ax]
    IN  LET shp == oshape
        IN  Tensor(shp,
              [e \in 1..Size(shp) |->
                 LET idx == Unravel(e - 1, shp)
                 IN  At(ts[Blk(idx[ax])],
                     [idx EXCEPT ![ax] = @ - Off(Blk(idx[ax]))])])

\* tf.transpose: output axis k is input axis perm[k]
tf_transpose(t, perm) ==
    LET oshape == [k \in 1..Len(perm) |-> t.shape[perm[k] + 1]]
    IN  LET shp == oshape
        IN  Tensor(shp,
              [e \in 1..Size(shp) |->
                 LET idx == Unravel(e - 1, shp)
                 IN  At(t, [a \in 1..Len(perm) |->
                     idx[CHOOSE k \in 1..Len(perm) : perm[k] + 1 = a]])])

(* ------------------- utils/argtools.py helpers ------------------------- *)
\* get_data_format: convert between the TF-layers names and the TF-op names
get_data_format(data_format, tfmode) ==
    IF tfmode
    THEN CASE data_format = "NCHW" -> "channels_first"
           [] data_format = "NHWC" -> "channels_last"
           [] OTHER -> data_format
    ELSE CASE data_format = "channels_first" -> "NCHW"
           [] data_format = "channels_last" -> "NHWC"
           [] OTHER -> data_format

\* a Python argument that is an int, or a tuple of ints
PyInt(k) == [int |-> k]

PyTuple(t) == [tuple |-> t]

\* shape2d: an int k becomes [k, k], a pair stays as it is
shape2d(a) == IF "int" \in DOMAIN a THEN <<a.int, a.int>> ELSE a.tuple

\* shape4d: a 2-D shape placed on the height and width axes of the format
shape4d(a, data_format) ==
    LET s2d == shape2d(a)
    IN  IF get_data_format(data_format, TRUE) = "channels_last"
        THEN <<1>> \o s2d \o <<1>>
        ELSE <<1, 1>> \o s2d

(* ------------------------ tensors and layouts -------------------------- *)
IsLast(data_format) == get_data_format(data_format, TRUE) = "channels_last"

\* the shape of a tensor of logical size (n, h, w, c) in a data format
Layout(data_format, n, h, w, c) ==
    IF IsLast(data_format) THEN <<n, h, w, c>> ELSE <<n, c, h, w>>

\* the logical coordinates <<n, h, w, c>> of a multi-index in a data format
Logical(data_format, idx) ==
    IF IsLast(data_format) THEN <<idx[1], idx[2], idx[3], idx[4]>>
    ELSE <<idx[1], idx[3], idx[4], idx[2]>>

\* the input tensor of a call: element (n, h, w, c) is the term <<n, h, w, c>>
InputTensor(a) ==
    LET shp == Layout(a.data_format, a.N, a.H, a.W, a.C)
    IN  Tensor(shp,
          [e \in 1..Size(shp) |->
             LET idx == Unravel(e - 1, shp)
             IN  {Logical(a.data_format, idx)}])

\* inputs.get_shape().as_list(): the static shape, None where unknown
in_shape_of(a) ==
    Layout(a.data_format, a.N,
           IF "H" \in a.unknown THEN None ELSE a.H,
           IF "W" \in a.unknown THEN None ELSE a.W,
           IF "C" \in a.unknown THEN None ELSE a.C)

\* output size of a strided window with padding SAME; None stays None
OutDim(d, s) == IF d = None THEN None ELSE CeilDiv(d, s)

\* tf.nn.depthwise_conv2d: output channel c * multiplier + m is input channel
\* c filtered by W[:, :, c, m]; the element is the term <<n, oh, ow, k>>.
tf_nn_depthwise_conv2d(x, filter_shape, stride, data_format) ==
    LET l  == Logical(data_format, x.shape)
        hd == IF IsLast(data_format) THEN 2 ELSE 3
    IN  LET shp == Layout(data_format, l[1], CeilDiv(l[2], stride[hd]), CeilDiv(l[3], stride[hd + 1]), l[4] * filter_shape[4])
        IN  Tensor(shp,
              [e \in 1..Size(shp) |->
                 LET idx == Unravel(e - 1, shp)
                 IN  {Logical(data_format, idx)}])

depthwise_static(in_shape, filter_shape, stride, data_format) ==
    LET l  == Logical(data_format, in_shape)
        hd == IF IsLast(data_format) THEN 2 ELSE 3
    IN  Layout(data_format, l[1], OutDim(l[2], stride[hd]),
               OutDim(l[3], stride[hd + 1]), l[4] * filter_shape[4])

\* tf.nn.bias_add: entry c of the bias, the term <<c>>, is added to channel c
tf_nn_bias_add(t, data_format) ==
    LET shp == t.shape
    IN  Tensor(shp,
          [e \in 1..Size(shp) |->
             LET idx == Unravel(e - 1, shp)
             IN  At(t, idx) \cup {<<Logical(data_format, idx)[4]>>}])

bias_add_ok(t, b, data_format) ==
    b.shape = <<Logical(data_format, t.shape)[4]>>

\* a call that raised: nothing is returned
Raised(err, g) == [graph |-> g, ret |-> [status |-> err]]

\* tf.get_variable
Variable(name, shape) == [name |-> name, shape |-> shape]

\* a holder that is given b whether or not there is a bias
Holder_always_b(W, b, use_bias) == [W |-> W, b |-> b]

\* VariableHolder(W=W), then .b = b when use_bias
Holder(W, b, use_bias) ==
    IF use_bias THEN [W |-> W, b |-> b] ELSE [W |-> W]

\* a variable as a tensor: the element at index idx is the term idx
VarTensor(v) == LET shp == v.shape
                IN  Tensor(shp,
                      [e \in 1..Size(shp) |->
                         LET idx == Unravel(e - 1, shp)
                         IN  {idx}])

\* tf.nn.conv2d (and the convolution of tf.layers.Conv2D): output channel o
\* at a position sums, over the input channels ci of x, the product of
\* x[.., ci] with k[.., ci, o]; a product is the term <<x term, k term>>.
\* The kernel's spatial taps are represented by the tap (0, 0).
tf_nn_conv2d(x, k, stride, data_format) ==
    LET l  == Logical(data_format, x.shape)
        hd == IF IsLast(data_format) THEN 2 ELSE 3
    IN  LET shp == Layout(data_format, l[1], CeilDiv(l[2], stride[hd]), CeilDiv(l[3], stride[hd + 1]), k.shape[4])
        IN  Tensor(shp,
              [e \in 1..Size(shp) |->
                 LET idx == Unravel(e - 1, shp)
                 IN  LET lo == Logical(data_format, idx)
                     IN  UNION { { <<xa, ka>> :
                                   xa \in At(x, Layout(data_format, lo[1],
                                                       lo[2] * stride[hd],
                                                       lo[3] * stride[hd + 1], ci)),
                                   ka \in At(k, <<0, 0, ci, lo[4]>>) } :
                                 ci \in 0..(k.shape[3] - 1) }])

(* -------------------------------- Conv2D ------------------------------- *)
Conv2D_channel_axis(data_format) ==
    IF data_format = "channels_last" THEN 3 ELSE 1

\* the height axis of 'channels_last' taken for every data format
Conv2D_h_dim_last(data_format) == 1

Conv2D_h_dim(data_format) == IF data_format = "channels_last" THEN 1 ELSE 2

Conv2D_w_dim(h_dim) == h_dim + 1

Conv2D_has_hw(in_shape, h_dim) ==
    PyIndex(in_shape, h_dim) # None /\ PyIndex(in_shape, h_dim) > 0

\* lines 76-86: the flops of the convolution
Conv2D_flops(in_shape, data_format, filters, kernel_size, strides) ==
    LET channel_axis == Conv2D_channel_axis(data_format)
        h_dim == Conv2D_h_dim(data_format)
        w_dim == Conv2D_w_dim(h_dim)
        in_channel == PyIndex(in_shape, channel_axis)
        out_channel == filters
        kernel_shape == shape2d(kernel_size)
        stride == shape4d(strides, data_format)
        flops == Rat(in_channel * out_channel * kernel_shape[1] * kernel_shape[2], 1)
    IN  IF Conv2D_has_hw(in_shape, h_dim)
        THEN RatMul(flops,
                    RatDiv(RatDiv(Rat(PyIndex(in_shape, h_dim)
                                        * PyIndex(in_shape, w_dim), 1),
                                  Rat(PyIndex(stride, h_dim), 1)),
                           Rat(PyIndex(stride, w_dim), 1)))
        ELSE flops

\* lines 52-87: split == 1, the tf.layers.Conv2D wrapper
Conv2D_layer(a) ==
    LET in_shape == in_shape_of(a)
        kernel_shape == shape2d(a.kernel_size)
        W == Variable("W", kernel_shape \o <<a.C, a.filters>>)
        b == Variable("b", <<a.filters>>)
        g == IF a.use_bias THEN {W, b} ELSE {W}
        stride == shape4d(a.strides, a.data_format)
        conv == tf_nn_conv2d(InputTensor(a), VarTensor(W), stride, a.data_format)
        out == IF a.use_bias THEN tf_nn_bias_add(conv, a.data_format) ELSE conv
        h_dim == Conv2D_h_dim(a.data_format)
    IN  IF "C" \in a.unknown THEN Raised("ValueError", {})
        ELSE IF Conv2D_has_hw(in_shape, h_dim)
                  /\ PyIndex(in_shape, Conv2D_w_dim(h_dim)) = None
        THEN Raised("TypeError", g)
        ELSE [graph |-> g,
              ret |-> [status |-> "ok",
                       shape |-> out.shape,
                       data |-> out.data,
                       variables |-> Holder(W, b, a.use_bias),
                       info |-> [flops |-> Conv2D_flops(in_shape, a.data_format,
                                                        a.filters, a.kernel_size,
                                                        a.strides)]]]

Conv2D_group_channel_axis(data_format) == IF data_format = "NHWC" THEN -1 ELSE 1

\* the checks without the one on the output channels
Conv2D_group_check_no_filters(in_channel, out_channel, split) ==
    /\ in_channel # None
    /\ in_channel % split = 0

\* the assertions of lines 95, 96 and 102
Conv2D_group_check(in_channel, out_channel, split) ==
    /\ in_channel # None
    /\ in_channel % split = 0
    /\ out_channel % split = 0

Conv2D_filter_shape(kernel_shape, in_channel, out_channel, split) ==
    kernel_shape \o <<in_channel \div split, out_channel>>

\* the blocks of the input paired with the blocks of the kernel in reverse
Conv2D_group_conv_reversed(inputs, W, split, channel_axis, stride, data_format) ==
    LET ins == tf_split(inputs, split, channel_axis)
        kernels == tf_split(W, split, 3)
        outputs == [i \in 1..split |->
                      tf_nn_conv2d(ins[i], kernels[split + 1 - i], stride,
                                   data_format)]
    IN  tf_concat(outputs, channel_axis)

\* lines 119-123: split, convolve block by block, concatenate
Conv2D_group_conv(inputs, W, split, channel_axis, stride, data_format) ==
    LET ins == tf_split(inputs, split, channel_axis)
        kernels == tf_split(W, split, 3)
        outputs == [i \in 1..split |->
                      tf_nn_conv2d(ins[i], kernels[i], stride, data_format)]
    IN  tf_concat(outputs, channel_axis)

\* lines 89-130: split > 1, the group conv implementation
Conv2D_group(a) ==
    LET data_format == get_data_format(a.data_format, FALSE)
        in_shape == in_shape_of(a)
        channel_axis == Conv2D_group_channel_axis(data_format)
        in_channel == PyIndex(in_shape, channel_axis)
        out_channel == a.filters
        kernel_shape == shape2d(a.kernel_size)
        filter_shape ==
            Conv2D_filter_shape(kernel_shape, in_channel, out_channel, a.split)
        stride == shape4d(a.strides, data_format)
        W == Variable("W", filter_shape)
        b == Variable("b", <<out_channel>>)
        g == IF a.use_bias THEN {W, b} ELSE {W}
        conv == Conv2D_group_conv(InputTensor(a), VarTensor(W), a.split,
                                  channel_axis, stride, data_format)
        out == IF a.use_bias THEN tf_nn_bias_add(conv, data_format) ELSE conv
    IN  IF ~Conv2D_group_check(in_channel, out_channel, a.split)
        THEN Raised("AssertionError", {})
        ELSE IF a.use_bias /\ ~bias_add_ok(conv, b, data_format)
        THEN Raised("ValueError", g)
        ELSE [graph |-> g,
              ret |-> [status |-> "ok",
                       shape |-> out.shape,
                       data |-> out.data,
                       variables |-> Holder(W, b, a.use_bias)]]

Conv2D(a) == IF a.split = 1 THEN Conv2D_layer(a) ELSE Conv2D_group(a)

(* ---------------------------- Conv2DTranspose -------------------------- *)
\* the transposed convolution of tf.layers.Conv2DTranspose, padding 'same':
\* the spatial size is multiplied by the stride, and output channel o sums
\* over the input channels ci the product of x[.., ci] with k[.., o, ci]
tf_conv2d_transpose(x, k, stride, data_format) ==
    LET l  == Logical(data_format, x.shape)
        hd == IF IsLast(data_format) THEN 2 ELSE 3
    IN  LET shp == Layout(data_format, l[1], l[2] * stride[hd], l[3] * stride[hd + 1], k.shape[3])
        IN  Tensor(shp,
              [e \in 1..Size(shp) |->
                 LET idx == Unravel(e - 1, shp)
                 IN  LET lo == Logical(data_format, idx)
                     IN  UNION { { <<xa, ka>> :
                                   xa \in At(x, Layout(data_format, lo[1],
                                                       lo[2] \div stride[hd],
                                                       lo[3] \div stride[hd + 1],
                                                       ci)),
                                   ka \in At(k, <<0, 0, lo[4], ci>>) } :
                                 ci \in 0..(k.shape[4] - 1) }])

Conv2DTranspose(a) ==
    LET kernel_shape == shape2d(a.kernel_size)
        W == Variable("W", kernel_shape \o <<a.filters, a.C>>)
        b == Variable("b", <<a.filters>>)
        g == IF a.use_bias THEN {W, b} ELSE {W}
        stride == shape4d(a.strides, a.data_format)
        conv == tf_conv2d_transpose(InputTensor(a), VarTensor(W), stride,
                                    a.data_format)
        out == IF a.use_bias THEN tf_nn_bias_add(conv, a.data_format) ELSE conv
    IN  IF "C" \in a.unknown THEN Raised("ValueError", {})
        ELSE [graph |-> g,
              ret |-> [status |-> "ok",
                       shape |-> out.shape,
                       data |-> out.data,
                       variables |-> Holder(W, b, a.use_bias)]]

(* ------------------------------ ResizeImages --------------------------- *)
\* tf.image.resize_images on a channels-last tensor: element (n, i, j, c)
\* of the result interpolates the elements (n, *, *, c) of the input
tf_image_resize_images(l, size) ==
    LET shp == <<l.shape[1], size[1], size[2], l.shape[4]>>
    IN  Tensor(shp,
          [e \in 1..Size(shp) |->
             LET idx == Unravel(e - 1, shp)
             IN  UNION { At(l, <<idx[1], h, w, idx[4]>>) :
                 h \in 0..(l.shape[2] - 1), w \in 0..(l.shape[3] - 1) }])

ResizeImages_perm_in == <<0, 2, 3, 1>>

\* a permutation that brings the channels back but swaps height and width
ResizeImages_perm_out_swapped == <<0, 3, 2, 1>>

ResizeImages_perm_out == <<0, 3, 1, 2>>

ResizeImages_transposed(data_format) == data_format = "channels_first"

ResizeImages(a) ==
    LET l0 == InputTensor(a)
        l1 == IF ResizeImages_transposed(a.data_format)
              THEN tf_transpose(l0, ResizeImages_perm_in) ELSE l0
        l2 == tf_image_resize_images(l1, a.size)
        l3 == IF ResizeImages_transposed(a.data_format)
              THEN tf_transpose(l2, ResizeImages_perm_out) ELSE l2
        tr == IF ResizeImages_transposed(a.data_format)
              THEN <<"transpose">> ELSE <<>>
    IN  [graph |-> {},
         ret |-> [status |-> "ok",
                  shape |-> l3.shape,
                  data |-> l3.data,
                  ops |-> tr \o <<"resize_images">> \o tr \o <<"identity">>]]

(* ----------------------------- GroupedConv2D --------------------------- *)
GroupedConv2D_ch_dim(data_format) == IF data_format = "NHWC" THEN 3 ELSE 1

\* the channel count of the concatenation used also when the paths are summed
GroupedConv2D_ch_out_concat(num_paths, path_ch_out, sum_paths) ==
    num_paths * path_ch_out

GroupedConv2D_ch_out(num_paths, path_ch_out, sum_paths) ==
    IF sum_paths THEN path_ch_out ELSE num_paths * path_ch_out

GroupedConv2D_shape_depthwise(num_paths, ch_in_per_path, path_ch_out) ==
    <<num_paths, ch_in_per_path, path_ch_out>>

\* the sum taken over the path axis instead of the channels of a path
GroupedConv2D_sum_axis_paths(sum_paths, ch_dim) ==
    IF sum_paths THEN {ch_dim, ch_dim + 1} ELSE {ch_dim}

GroupedConv2D_sum_axis(sum_paths, ch_dim) ==
    IF sum_paths THEN {ch_dim, ch_dim + 1} ELSE {ch_dim + 1}

\* first reshape: expose the dimension by input channels
GroupedConv2D_expose(data_format, out_shape, shape_depthwise) ==
    IF data_format = "NHWC"
    THEN <<-1, out_shape[2], out_shape[3]>> \o shape_depthwise
    ELSE <<-1>> \o shape_depthwise \o <<out_shape[3], out_shape[4]>>

\* last reshape: to the output shape when the path dimension did not collapse
GroupedConv2D_output(data_format, out_shape, ch_out) ==
    IF data_format = "NHWC"
    THEN <<-1, out_shape[2], out_shape[3], ch_out>>
    ELSE <<-1, ch_out, out_shape[3], out_shape[4]>>

\* the assertion of line 254
GroupedConv2D_check(ch_in, num_paths) == ch_in % num_paths = 0

GroupedConv2D(a) ==
    LET data_format == get_data_format(a.data_format, FALSE)
        in_shape == in_shape_of(a)
        ch_dim == GroupedConv2D_ch_dim(data_format)
        ch_in == in_shape[ch_dim + 1]
        ch_in_per_path == ch_in \div a.num_paths
        ch_out == GroupedConv2D_ch_out(a.num_paths, a.path_ch_out, a.sum_paths)
        kernel_shape == shape2d(a.kernel_shape)
        filter_shape == kernel_shape \o <<ch_in, a.path_ch_out>>
        stride == shape4d(a.stride, data_format)
        W == Variable("W", filter_shape)
        b == Variable("b", <<ch_out>>)
        g == IF a.use_bias THEN {W, b} ELSE {W}
        x1 == tf_nn_depthwise_conv2d(InputTensor(a), filter_shape, stride, data_format)
        out_shape == depthwise_static(in_shape, filter_shape, stride, data_format)
        shape_depthwise ==
            GroupedConv2D_shape_depthwise(a.num_paths, ch_in_per_path, a.path_ch_out)
        shp1 == GroupedConv2D_expose(data_format, out_shape, shape_depthwise)
        x2 == tf_reshape(x1, shp1)
        x3 == tf_reduce_sum(x2, GroupedConv2D_sum_axis(a.sum_paths, ch_dim))
        shp2 == GroupedConv2D_output(data_format, out_shape, ch_out)
        x4 == IF a.sum_paths THEN x3 ELSE tf_reshape(x3, shp2)
        x5 == IF a.use_bias THEN tf_nn_bias_add(x4, data_format) ELSE x4
    IN  IF ch_in = None THEN Raised("TypeError", {})
        ELSE IF ~GroupedConv2D_check(ch_in, a.num_paths)
        THEN Raised("AssertionError", {})
        ELSE IF \E k \in 1..Len(shp1) : shp1[k] = None
        THEN Raised("TypeError", g)
        ELSE IF ~reshape_ok(x1, shp1) THEN Raised("ValueError", g)
        ELSE IF ~a.sum_paths /\ ~reshape_ok(x3, shp2) THEN Raised("ValueError", g)
        ELSE IF a.use_bias /\ ~bias_add_ok(x4, b, data_format)
        THEN Raised("ValueError", g)
        ELSE [graph |-> g,
              ret |-> [status |-> "ok",
                       shape |-> x5.shape,
                       data |-> x5.data,
                       variables |-> Holder(W, b, a.use_bias)]]

(* ------------------------------- calls --------------------------------- *)
Formats == {"NHWC", "NCHW"}

TFFormats == {"channels_last", "channels_first"}

\* the dimensions of the input that are unknown in its static shape
Unknowns == {{}, {"H", "W"}, {"W"}, {"C"}}

Ints(ks) == {PyInt(k) : k \in ks}

Pairs(ks) == {PyTuple(t) : t \in ks \X ks}

Conv2DArgsOf(kernels, strides) ==
    [layer : {"Conv2D"},
     N : {Batch}, H : {0, Height}, W : {Width}, C : 1..MaxChannel,
     unknown : Unknowns, data_format : TFFormats,
     filters : 1..MaxFilters, kernel_size : Ints(kernels),
     strides : Pairs(strides), use_bias : BOOLEAN, split : 1..MaxGroups]

Conv2DTransposeArgsOf(kernels, strides) ==
    [layer : {"Conv2DTranspose"},
     N : {Batch}, H : {Height}, W : {Width}, C : 1..MaxChannel,
     unknown : Unknowns, data_format : TFFormats,
     filters : 1..MaxFilters, kernel_size : Ints(kernels),
     strides : Ints(strides), use_bias : BOOLEAN]

ResizeImagesArgs ==
    [layer : {"ResizeImages"},
     N : {Batch}, H : 1..Height, W : {Width}, C : 1..MaxChannel,
     unknown : {{}}, data_format : TFFormats,
     size : {1, MaxSize} \X {1, MaxSize}, align_corners : BOOLEAN]

GroupedArgsOf(kernels, strides) ==
    [layer : {"GroupedConv2D"},
     N : {Batch}, H : {Height}, W : {Width}, C : 1..MaxChannel,
     unknown : Unknowns, data_format : Formats,
     num_paths : 1..MaxGroups, path_ch_out : 1..MaxPathChOut,
     kernel_shape : Ints(kernels), sum_paths : BOOLEAN,
     stride : Ints(strides), use_bias : BOOLEAN]

Conv2DArgs == Conv2DArgsOf({1, 3}, {1, Stride})

GroupedArgs == GroupedArgsOf({1, 3}, {1, Stride})

\* the calls of all four layers, with 3x3 kernels
LayersArgs ==
    Conv2DArgsOf({3}, {Stride}) \cup Conv2DTransposeArgsOf({3}, {1, Stride})
      \cup ResizeImagesArgs \cup GroupedArgsOf({3}, {Stride})

NoScript == [pc |-> "none"]

InitOf(Args) ==
    /\ pc = "call"
    /\ call \in Args
    /\ graph = {}
    /\ ret = [status |-> "none"]
    /\ script = NoScript

InitConv2D == InitOf(Conv2DArgs)

InitGrouped == InitOf(GroupedArgs)

InitResize == InitOf(ResizeImagesArgs)

InitLayers == InitOf(LayersArgs)

CallConv2D ==
    /\ pc = "call"
    /\ call.layer = "Conv2D"
    /\ LET r == Conv2D(call)
       IN  graph' = r.graph /\ ret' = r.ret
    /\ pc' = "done"
    /\ UNCHANGED <<call, script>>

CallGroupedConv2D ==
    /\ pc = "call"
    /\ call.layer = "GroupedConv2D"
    /\ LET r == GroupedConv2D(call)
       IN  graph' = r.graph /\ ret' = r.ret
    /\ pc' = "done"
    /\ UNCHANGED <<call, script>>

CallConv2DTranspose ==
    /\ pc = "call"
    /\ call.layer = "Conv2DTranspose"
    /\ LET r == Conv2DTranspose(call)
       IN  graph' = r.graph /\ ret' = r.ret
    /\ pc' = "done"
    /\ UNCHANGED <<call, script>>

CallResizeImages ==
    /\ pc = "call"
    /\ call.layer = "ResizeImages"
    /\ LET r == ResizeImages(call)
       IN  graph' = r.graph /\ ret' = r.ret
    /\ pc' = "done"
    /\ UNCHANGED <<call, script>>

NextLayers ==
    \/ CallConv2D
    \/ CallConv2DTranspose
    \/ CallResizeImages
    \/ CallGroupedConv2D

SpecLayers == InitLayers /\ [][NextLayers]_vars

SpecConv2D == InitConv2D /\ [][CallConv2D]_vars

SpecGrouped == InitGrouped /\ [][CallGroupedConv2D]_vars

SpecResize == InitResize /\ [][CallResizeImages]_vars

(* ----------------- examples/AnytimeNetwork/imagenet-ann.py ------------- *)
(* script.pc is the statement the script is about to run, script.calls the  *)
(* calls it has made so far, in order; args, the datasets, the model and    *)
(* config are the script's variables of those names (<<>> before they are   *)
(* assigned).                                                               *)
Argv ==
    [init_channel : {32, 64}, num_classes : {10, 1000},
     load : {"", "model.ckpt"}, eval : BOOLEAN, is_toy : BOOLEAN,
     nr_gpu : 1..MaxGpu]

\* the files there may be when the script runs
Files == {{}, {"model.ckpt"}}

os_path_exists(files, path) == path \in files

\* the model instantiated before the datasets are built
main_next_model_first(p) ==
    CASE p = "parse_args"    -> "asserts"
      [] p = "asserts"       -> "set_log_root"
      [] p = "set_log_root"  -> "AnytimeResnet"
      [] p = "AnytimeResnet" -> "get_data"
      [] p = "get_data"      -> "TrainConfig"
      [] p = "TrainConfig"   -> "session_init"
      [] p = "session_init"  -> "nr_tower"
      [] p = "nr_tower"      -> "train"
      [] p = "train"         -> "exit"

\* the order of the statements of __main__ and, inlined, of get_config
main_next(p) ==
    CASE p = "parse_args"    -> "asserts"
      [] p = "asserts"       -> "set_log_root"
      [] p = "set_log_root"  -> "get_data"
      [] p = "get_data"      -> "AnytimeResnet"
      [] p = "AnytimeResnet" -> "TrainConfig"
      [] p = "TrainConfig"   -> "session_init"
      [] p = "session_init"  -> "nr_tower"
      [] p = "nr_tower"      -> "train"
      [] p = "train"         -> "exit"

\* lines 101-102
main_asserts(args) == args.init_channel = 64 /\ args.num_classes = 1000

\* a restore configured for any --load, existing or not
main_restores_unchecked(files, args) == args.load # ""

\* line 120
main_restores(files, args) ==
    args.load # "" /\ os_path_exists(files, args.load)

\* lines 57-62
get_config_callbacks(model) ==
    <<"ModelSaver", "InferenceRunner", "ScheduledHyperParamSetter",
      "HumanHyperParamSetter">> \o model.loss_select_cbs

InitTrain ==
    /\ pc = "idle"
    /\ call = [layer |-> "none"]
    /\ graph = {}
    /\ ret = [status |-> "none"]
    /\ \E argv \in Argv, files \in Files :
         script = [pc |-> "parse_args", argv |-> argv, files |-> files,
                   args |-> <<>>, log_root |-> FALSE,
                   dataset_train |-> <<>>, dataset_val |-> <<>>,
                   model |-> <<>>, config |-> <<>>, calls |-> <<>>]

Step(p) == script.pc = p /\ UNCHANGED <<pc, call, graph, ret>>

\* line 99
ParseArgs ==
    /\ Step("parse_args")
    /\ script' = [script EXCEPT !.args = script.argv,
                                !.calls = Append(@, "parse_args"),
                                !.pc = main_next("parse_args")]

\* lines 101-108
Asserts ==
    /\ Step("asserts")
    /\ IF main_asserts(script.args)
       THEN script' = [script EXCEPT
                         !.args = [do_mean_std_gpu_process |-> TRUE,
                                   input_type |-> "uint8",
                                   mean |-> "ilsvrc_mean",
                                   std |-> "ilsvrc_std"] @@ script.args,
                         !.pc = main_next("asserts")]
       ELSE script' = [script EXCEPT !.pc = "AssertionError"]

\* lines 111-112
SetLogRoot ==
    /\ Step("set_log_root")
    /\ script' = [script EXCEPT !.log_root = TRUE,
                                !.calls = Append(@, "set_log_root"),
                                !.pc = main_next("set_log_root")]

\* lines 42-48
GetData ==
    /\ Step("get_data")
    /\ script' = [script EXCEPT
                     !.dataset_train =
                        IF script.args.is_toy THEN "toy_train" ELSE "train",
                     !.dataset_val =
                        IF script.args.is_toy THEN "toy_validation"
                        ELSE "validation",
                     !.calls = @ \o <<"get_data", "get_data">>,
                     !.pc = main_next("get_data")]

\* lines 50-52
AnytimeResnet ==
    /\ Step("AnytimeResnet")
    /\ script' = [script EXCEPT
                     !.model = [classification_cbs |-> <<"classification">>,
                                loss_select_cbs |-> <<"loss_select">>],
                     !.calls = Append(@, "AnytimeResnet"),
                     !.pc = main_next("AnytimeResnet")]

\* lines 55-66
TrainConfig ==
    /\ Step("TrainConfig")
    /\ script' = [script EXCEPT
                     !.config = [dataflow |-> script.dataset_train,
                                 callbacks |-> get_config_callbacks(script.model),
                                 inference |-> script.dataset_val,
                                 model |-> script.model,
                                 session_init |-> "None",
                                 nr_tower |-> 0],
                     !.calls = Append(@, "TrainConfig"),
                     !.pc = main_next("TrainConfig")]

\* lines 120-121
SessionInit ==
    /\ Step("session_init")
    /\ IF main_restores(script.files, script.args)
       THEN script' = [script EXCEPT !.config.session_init = "SaverRestore",
                                    !.calls = Append(@, "SaverRestore"),
                                    !.pc = main_next("session_init")]
       ELSE script' = [script EXCEPT !.pc = main_next("session_init")]

\* line 122
NrTower ==
    /\ Step("nr_tower")
    /\ script' = [script EXCEPT !.config.nr_tower = script.args.nr_gpu,
                                !.pc = main_next("nr_tower")]

\* line 123
Train ==
    /\ Step("train")
    /\ script' = [script EXCEPT !.calls = Append(@, "train"),
                                !.pc = main_next("train")]

NextTrain ==
    \/ ParseArgs
    \/ Asserts
    \/ SetLogRoot
    \/ GetData
    \/ AnytimeResnet
    \/ TrainConfig
    \/ SessionInit
    \/ NrTower
    \/ Train

SpecTrain == InitTrain /\ [][NextTrain]_vars

(* ------------------------------ properties ----------------------------- *)
Returned(layer) == pc = "done" /\ call.layer = layer /\ ret.status = "ok"

\* the element of the returned tensor at logical position (n, h, w, c)
RetAt(n, h, w, c) ==
    At([shape |-> ret.shape, data |-> ret.data],
       Layout(call.data_format, n, h, w, c))

RetLogical == Logical(call.data_format, ret.shape)

\* the terms of the depthwise channels c * path_ch_out + m, c in cs, at a position
DepthwiseTerms(n, h, w, cs, m) ==
    { <<n, h, w, c * call.path_ch_out + m>> : c \in cs }

GroupChannels(p) ==
    LET cpp == call.C \div call.num_paths
    IN  (p * cpp)..((p + 1) * cpp - 1)

BiasTerm(j) == IF call.use_bias THEN {<<j>>} ELSE {}

\* C2: GroupedConv2D sums, for output channel p * path_ch_out + m, the
\* depthwise channels c * path_ch_out + m of exactly the input channels c of
\* group p (sum_paths = False), or of all input channels (sum_paths = True),
\* in both data formats.
C2_GroupsIndependent ==
    Returned("GroupedConv2D") =>
        \A n \in 0..(RetLogical[1] - 1), h \in 0..(RetLogical[2] - 1),
           w \in 0..(RetLogical[3] - 1), m \in 0..(call.path_ch_out - 1) :
            IF call.sum_paths
            THEN RetAt(n, h, w, m)
                   = DepthwiseTerms(n, h, w, 0..(call.C - 1), m) \cup BiasTerm(m)
            ELSE \A p \in 0..(call.num_paths - 1) :
                   RetAt(n, h, w, p * call.path_ch_out + m)
                     = DepthwiseTerms(n, h, w, GroupChannels(p), m)
                         \cup BiasTerm(p * call.path_ch_out + m)

C2_Witness ==
    /\ Returned("GroupedConv2D")
    /\ call.num_paths = 2 /\ call.C = 4 /\ call.path_ch_out = 2
    /\ ~call.sum_paths /\ call.data_format = "NCHW" /\ call.H = 2

\* C3: with ch_in divisible by num_paths no reshape and no bias addition of
\* GroupedConv2D is refused for its element count, and the tensor returned
\* has path_ch_out channels (sum_paths) or num_paths * path_ch_out channels
\* (otherwise) in the channel position of the data format, next to the batch
\* and spatial dimensions of the depthwise result; the bias has one entry per
\* output channel.
C3_OutputShape ==
    (pc = "done" /\ call.layer = "GroupedConv2D"
        /\ "C" \notin call.unknown /\ call.C % call.num_paths = 0) =>
        LET co == IF call.sum_paths THEN call.path_ch_out
                  ELSE call.num_paths * call.path_ch_out
            oh == CeilDiv(call.H, call.stride.int)
            ow == CeilDiv(call.W, call.stride.int)
        IN  /\ ret.status \notin {"ValueError", "AssertionError"}
            /\ ret.status = "ok" =>
                 /\ ret.shape = Layout(call.data_format, call.N, oh, ow, co)
                 /\ ret.shape[IF call.data_format = "NHWC" THEN 4 ELSE 2] = co
                 /\ Len(ret.data) = call.N * oh * ow * co
                 /\ call.use_bias => ret.variables.b.shape = <<co>>
            /\ call.unknown = {} => ret.status = "ok"

C3_Witness ==
    /\ Returned("GroupedConv2D")
    /\ call.sum_paths /\ call.use_bias /\ call.num_paths = 2 /\ call.C = 4
    /\ call.data_format = "NHWC"

\* C1: a channel count that the group count does not divide fails the call by
\* assertion before any variable is created: Conv2D with split > 1 when split
\* does not divide the input channels or the filters, GroupedConv2D when
\* num_paths does not divide the input channels.
C1_AssertBeforeVariables ==
    /\ (pc = "done" /\ call.layer = "Conv2D" /\ call.split > 1
          /\ "C" \notin call.unknown
          /\ (call.C % call.split # 0 \/ call.filters % call.split # 0))
         => (ret.status = "AssertionError" /\ graph = {})
    /\ (pc = "done" /\ call.layer = "GroupedConv2D"
          /\ "C" \notin call.unknown /\ call.C % call.num_paths # 0)
         => (ret.status = "AssertionError" /\ graph = {})

C1_Witness ==
    /\ pc = "done" /\ call.layer = "Conv2D" /\ call.split = 2
    /\ call.C = 4 /\ call.filters = 3 /\ call.unknown = {}
    /\ ret.status = "AssertionError"

\* C4: Conv2D with split = g > 1 convolves block i of the input channels
\* (in_channel/g contiguous channels) only with block i of the kernel
\* (filters/g contiguous output channels of W, of shape
\* [kh, kw, in_channel/g, filters]) and concatenates in block order: the
\* output has filters channels and channel j is made of the input channels
\* of block j div (filters/g) only.
C4_GroupConv ==
    (Returned("Conv2D") /\ call.split > 1) =>
        LET cg == call.C \div call.split
            fg == call.filters \div call.split
            st == call.strides.tuple
            ks == call.kernel_size.int
        IN  /\ RetLogical[4] = call.filters
            /\ ret.variables.W.shape = <<ks, ks, cg, call.filters>>
            /\ \A n \in 0..(RetLogical[1] - 1), h \in 0..(RetLogical[2] - 1),
                  w \in 0..(RetLogical[3] - 1), j \in 0..(call.filters - 1) :
                 LET i == j \div fg
                 IN  RetAt(n, h, w, j)
                       = { << <<n, h * st[1], w * st[2], c>>,
                              <<0, 0, c - i * cg, j>> >> :
                           c \in (i * cg)..((i + 1) * cg - 1) }
                         \cup BiasTerm(j)

C4_Witness ==
    /\ Returned("Conv2D") /\ call.split = 2 /\ call.C = 4 /\ call.filters = 4
    /\ call.data_format = "channels_first" /\ call.H = 2

\* C5: ResizeImages returns its result in the axis order of its input: for
\* 'channels_first' the permutations [0,2,3,1] and [0,3,1,2] compose to the
\* identity and (N, C, H, W) yields (N, C, h, w), element (n, c, i, j) being
\* made of the input plane (n, c); for 'channels_last' nothing is transposed.
C5_ResizeKeepsAxisOrder ==
    Returned("ResizeImages") =>
        /\ ret.shape = Layout(call.data_format, call.N, call.size[1],
                              call.size[2], call.C)
        /\ \A n \in 0..(call.N - 1), i \in 0..(call.size[1] - 1),
              j \in 0..(call.size[2] - 1), c \in 0..(call.C - 1) :
             RetAt(n, i, j, c)
               = { <<n, h, w, c>> : h \in 0..(call.H - 1), w \in 0..(call.W - 1) }
        /\ call.data_format = "channels_first" =>
             /\ [k \in 1..4 |-> ResizeImages_perm_in[ResizeImages_perm_out[k] + 1]]
                  = <<0, 1, 2, 3>>
             /\ Len(SelectSeq(ret.ops, LAMBDA o : o = "transpose")) = 2
        /\ call.data_format = "channels_last" =>
             Len(SelectSeq(ret.ops, LAMBDA o : o = "transpose")) = 0

C5_Witness ==
    /\ Returned("ResizeImages") /\ call.data_format = "channels_first"
    /\ call.C = 3 /\ call.H = 2 /\ call.size = <<1, 2>>

\* C6: a tensor returned by Conv2D, Conv2DTranspose or GroupedConv2D carries
\* a variables holder with W, and with b exactly when use_bias is set; a bias
\* variable is created only when use_bias is set.
C6_VariablesHolder ==
    /\ \A layer \in {"Conv2D", "Conv2DTranspose", "GroupedConv2D"} :
         Returned(layer) =>
           /\ "variables" \in DOMAIN ret
           /\ "W" \in DOMAIN ret.variables
           /\ ret.variables.W \in graph /\ ret.variables.W.name = "W"
           /\ ("b" \in DOMAIN ret.variables) <=> call.use_bias
           /\ call.use_bias =>
                (ret.variables.b \in graph /\ ret.variables.b.name = "b")
    /\ (\E v \in graph : v.name = "b") => call.use_bias

C6_Witness ==
    /\ Returned("Conv2D") /\ call.split = 2 /\ call.use_bias
    /\ "b" \in DOMAIN ret.variables

\* C8: for split = 1 the flops recorded by Conv2D are
\* in_channel * filters * kh * kw * (H * W) / (sh * sw) when the height is
\* known and positive and in_channel * filters * kh * kw otherwise, with
\* in_channel, H, W and the strides sh, sw those of the channel, height and
\* width axes of the data format.
C8_Flops ==
    (Returned("Conv2D") /\ call.split = 1) =>
        LET ks == call.kernel_size.int
            st == call.strides.tuple
            base == call.C * call.filters * ks * ks
        IN  ret.info.flops =
              IF "H" \notin call.unknown /\ call.H > 0
              THEN Rat(base * call.H * call.W, st[1] * st[2])
              ELSE Rat(base, 1)

C8_Witness ==
    /\ Returned("Conv2D") /\ call.split = 1
    /\ call.data_format = "channels_first" /\ call.strides.tuple = <<2, 1>>
    /\ call.H = 2 /\ call.C = 3 /\ call.unknown = {}
    /\ ret.info.flops[2] = 1

\* C9: every tensor returned by Conv2D carries a flops record, whatever the
\* value of split.
C9_FlopsForEverySplit ==
    Returned("Conv2D") => ("info" \in DOMAIN ret /\ "flops" \in DOMAIN ret.info)

(* -------------------------- the training script ------------------------ *)
Count(name) == Len(SelectSeq(script.calls, LAMBDA c : c = name))

Called(name) == Count(name) > 0

\* every call of first comes before every call of second
Before(first, second) ==
    \A i, j \in 1..Len(script.calls) :
        (script.calls[i] = second /\ script.calls[j] = first) => j < i

ConfigComplete ==
    /\ script.config # <<>>
    /\ script.config.dataflow = script.dataset_train
    /\ script.config.model = script.model /\ script.model # <<>>
    /\ Len(script.config.callbacks) > 0
    /\ script.config.nr_tower = script.args.nr_gpu

\* C7: the script parses its arguments, builds the two dataset iterators,
\* instantiates the model, registers the callbacks in the training
\* configuration and invokes the trainer in this order, each step at most
\* once, and never invokes the trainer before the configuration is complete.
C7_StepOrder ==
    /\ Count("parse_args") <= 1 /\ Count("get_data") <= 2
    /\ Count("AnytimeResnet") <= 1 /\ Count("TrainConfig") <= 1
    /\ Count("train") <= 1
    /\ Called("get_data") => (Called("parse_args") /\ Count("get_data") = 2)
    /\ Called("AnytimeResnet") => Called("get_data")
    /\ Called("TrainConfig") => Called("AnytimeResnet")
    /\ Called("train") => (Called("TrainConfig") /\ ConfigComplete)
    /\ Before("parse_args", "get_data") /\ Before("get_data", "AnytimeResnet")
    /\ Before("AnytimeResnet", "TrainConfig") /\ Before("TrainConfig", "train")

C7_Witness ==
    /\ script.pc = "exit"
    /\ script.calls = <<"parse_args", "set_log_root", "get_data", "get_data",
                        "AnytimeResnet", "TrainConfig", "train">>

\* C10: the trainer starts only when init_channel = 64 and num_classes = 1000;
\* a run failing either check aborts before the log directory is set up,
\* before any dataset is built and before training; a run passing them
\* configures a restore exactly when --load names an existing path, and
\* still trains when the path does not exist and when --eval is given.
C10_ChecksAndRestore ==
    /\ Called("train") =>
         (script.args.init_channel = 64 /\ script.args.num_classes = 1000)
    /\ script.pc = "AssertionError" =>
         /\ ~(script.args.init_channel = 64 /\ script.args.num_classes = 1000)
         /\ ~script.log_root /\ ~Called("set_log_root")
         /\ ~Called("get_data") /\ ~Called("train")
         /\ script.dataset_train = <<>> /\ script.dataset_val = <<>>
    /\ (Called("parse_args") /\ script.pc # "asserts"
          /\ ~(script.args.init_channel = 64 /\ script.args.num_classes = 1000))
         => script.pc = "AssertionError"
    /\ Called("SaverRestore") =>
         (script.args.load # "" /\ script.args.load \in script.files)
    /\ script.pc \in {"nr_tower", "train", "exit"} =>
         ((script.config.session_init = "SaverRestore")
            <=> (script.args.load # "" /\ script.args.load \in script.files))
    /\ script.pc = "exit" => Called("train")

C10_Witness ==
    /\ script.pc = "exit" /\ Called("train")
    /\ script.args.load = "model.ckpt" /\ script.files = {}
    /\ script.args.eval /\ script.config.session_init = "None"

====
